---- MODULE Spec2Model ----
(***************************************************************************)
(* A model of ezSMT / smt_switch: the facade of smt.py (the process-wide   *)
(* active solver, the per-name solver cache, assertion, satisfiability     *)
(* check and value query), the Boolector and CVC4 adapters, and the        *)
(* operator dispatch of smt.py and functions.py.                           *)
(*                                                                         *)
(* Three specifications share the variables:                               *)
(*   Spec       the life cycle of the facade and of the solver instances;  *)
(*   SwitchSpec the facade across a switch of the active backend, with     *)
(*              constants that carry the instance they were declared       *)
(*              under, and the settings handed to the backend;             *)
(*   ApplySpec  the operator-application call sites, which change nothing  *)
(*              of that life cycle: each step makes one call and records   *)
(*              the call and its outcome.                                  *)
(*                                                                         *)
(* The native engines are opaque.  A native satisfiability outcome is a    *)
(* free choice among SAT, UNSAT and UNKNOWN; a native operator application *)
(* is recorded, with the arguments it was given, and assumed to answer.    *)
(* Z3Solver is not among the sources: a Z3 instance can be constructed,    *)
(* cached and made active (smt.py does that), its methods are not taken.   *)
(***************************************************************************)
EXTENDS Integers, Sequences, FiniteSets, TLC

VARIABLES
    strict,        \* config.strict
    solver_cache,  \* smt.__solver_cache: name -> None or the cached instance
    solver,        \* smt._solver: None or the active instance
    created,       \* per name, how many times __solver_map[name]() ran
    inst,          \* per name, the fields of the instance cached under it
    sat,           \* smt.sat, the facade's copy of the last check_sat answer
    last,          \* the last life-cycle call and what it answered
    call,          \* ApplySpec: the last operator-application call
    out            \* ApplySpec: its outcome

vars == <<strict, solver_cache, solver, created, inst, sat, last, call, out>>

(***************************************************************************)
(* Bounds                                                                  *)
(***************************************************************************)
\* the most formulas handed to Assert calls in one run, over all instances:
\* it bounds the assertion lists and the sequence one call is given
MaxAsserts == 2
\* the most arguments of one operator call (index parameters included)
MaxArgs == 3

(***************************************************************************)
(* Values                                                                  *)
(***************************************************************************)
None == "None"

\* the value of an empty cache slot and of _solver before set_solver
NoSolver == [cls |-> None, gen |-> 0]

\* the keys of __solver_cache and __solver_map
Names == {"CVC4", "Z3", "Boolector"}

\* the adapters whose source is given
Modelled == {"CVC4", "Boolector"}

\* A Term (of the facade or of an adapter: both carry sort and solver_term).
Term(s, n) == [k |-> "Term", sort |-> s, v |-> n]
\* A bare host value; v is its text.
Lit(x) == [k |-> "Lit", sort |-> "none", v |-> x]
\* What theory_const(sort, value) returns: a Term holding a native constant.
Const(s, x) == [k |-> "Const", sort |-> s, v |-> x]

\* hasattr(arg, 'solver_term') / isinstance(arg, TermBase)
IsTerm(a) == a.k \in {"Term", "Const"}

\* type(value) of a bare host value
PyType(a) == IF a.v \in {"True", "False"} THEN "bool" ELSE "int"

\* getattr(constraint, 'sort', type(constraint))
SortOrType(a) == IF IsTerm(a) THEN a.sort ELSE PyType(a)

\* A Term as declare_const makes it under the instance o: the facade wraps the
\* native variable of the backend that was active then.
OwnedTerm(s, n, o) == [k |-> "Term", sort |-> s, v |-> n, owner |-> o]

\* The formulas an Assert call is tried on: the constants x (of sort Bool) and
\* a (of a bit-vector sort) of the active instance, and the bare host values
\* True and 5.
Formulas == {Term("Bool", "x"), Term("BV", "a"), Lit("True"), Lit("5")}

\* The same with the instance each constant was declared under, which need
\* not be the active one: x and a declared under either adapter's instance.
OwnedFormulas ==
    {OwnedTerm(d[2], d[1], [cls |-> c, gen |-> 1]) :
         d \in {<<"x", "Bool">>, <<"a", "BV">>}, c \in Modelled}
        \cup {Lit("True"), Lit("5")}

SeqsUpTo(S, n) == UNION {[1..m -> S] : m \in 0..n}

(***************************************************************************)
(* Solver instances                                                        *)
(***************************************************************************)
\* An instance is named by its class and by which construction of that class
\* it is: two instances are the same object iff both agree.
Ref(n, g) == [cls |-> n, gen |-> g]

\* The fields a constructor sets: a fresh native engine (native is its last
\* answer to a check, None before any) and no assertions: BoolectorSolver sets
\* _assertions = [], CVC4Solver starts a fresh SmtEngine.  self.sat is the
\* attribute SolverBase declares (None until check_sat assigns it).
NewInstance == [assertions |-> <<>>, sat |-> None, native |-> None]

\* The facade's calls below reach an adapter's method: the active instance is
\* one whose class is among the sources.
Active == solver # NoSolver /\ solver.cls \in Modelled

(***************************************************************************)
(* Adapter methods                                                         *)
(***************************************************************************)
\* BoolectorSolver.Assert(constraints), on the sequence cs it iterates over (the
\* list given, or the one constraint of the other branch: both branches treat a
\* constraint alike).  Each constraint is checked, then handed to the native
\* assert and appended to _assertions, before the next one is looked at.  A
\* bare host value has no attribute sort.
RECURSIVE BoolectorSolver_Assert(_, _)
BoolectorSolver_Assert(i, cs) ==
    IF cs = <<>> THEN [inst |-> i, err |-> None]
    ELSE IF ~IsTerm(Head(cs)) THEN [inst |-> i, err |-> "AttributeError"]
    ELSE IF Head(cs).sort # "Bool" THEN [inst |-> i, err |-> "ValueError"]
    ELSE BoolectorSolver_Assert(
             [i EXCEPT !.assertions = Append(@, Head(cs))], Tail(cs))

\* CVC4Solver.Assert(constraints): the same walk; a host bool passes the check
\* and is asserted as mkBoolConst(constraint).  The assertion list is the
\* native engine's (assertions() reads getAssertions()).
RECURSIVE CVC4Solver_Assert(_, _)
CVC4Solver_Assert(i, cs) ==
    IF cs = <<>> THEN [inst |-> i, err |-> None]
    ELSE IF SortOrType(Head(cs)) \notin {"bool", "Bool"}
         THEN [inst |-> i, err |-> "ValueError"]
    ELSE CVC4Solver_Assert(
             [i EXCEPT !.assertions =
                  Append(@, IF IsTerm(Head(cs)) THEN Head(cs)
                            ELSE Const("Bool", Head(cs).v))],
             Tail(cs))

\* _solver.Assert(c), by the class of the active instance
Solver_Assert(cls, i, cs) ==
    IF cls = "Boolector" THEN BoolectorSolver_Assert(i, cs)
    ELSE CVC4Solver_Assert(i, cs)

\* What the native engine may answer to a check.  Term("Bool", _) stands for
\* any formula; with none asserted the list holds at most constants true.
NativeOutcomes(i) ==
    IF \E j \in 1..Len(i.assertions) : i.assertions[j].k = "Term"
    THEN {"SAT", "UNSAT", "UNKNOWN"}
    ELSE {"SAT"}

\* BoolectorSolver.check_sat: self.sat = True if Sat() == SAT else False
BoolectorSolver_check_sat(native) == IF native = "SAT" THEN "True" ELSE "False"

\* CVC4Solver.check_sat: self.sat = checkSat().isSat() == 1
CVC4Solver_check_sat(native) == IF native = "SAT" THEN "True" ELSE "False"

Solver_check_sat(cls, native) ==
    IF cls = "Boolector" THEN BoolectorSolver_check_sat(native)
    ELSE CVC4Solver_check_sat(native)

\* BoolectorSolver.get_value / CVC4Solver.get_value: the same three branches on
\* self.sat in both adapters.
Solver_get_value(i) ==
    IF i.sat = "True" THEN "value"
    ELSE IF i.sat # None THEN "RuntimeError: Problem is unsat"
    ELSE "RuntimeError: Solver has not been run"

\* A reset that keeps the assertions.
Solver_reset_keep(i) == [i EXCEPT !.native = None]

\* BoolectorSolver.reset runs __init__ again on the same object (a new native
\* engine, _assertions = []); CVC4Solver.reset resets the SmtEngine.  Neither
\* assigns self.sat.
Solver_reset(i) == [i EXCEPT !.assertions = <<>>, !.native = None]

\* No operator-application call yet.
NoCall == [site |-> None, fun |-> None, pyargs |-> <<>>]
NoOut == [ret |-> None, val |-> <<>>, disp |-> <<>>, native |-> <<>>]

(***************************************************************************)
(* The facade (smt.py): life cycle                                         *)
(***************************************************************************)
Init ==
    /\ strict \in BOOLEAN
    /\ solver_cache = [n \in Names |-> NoSolver]
    /\ solver = NoSolver
    /\ created = [n \in Names |-> 0]
    /\ inst = [n \in Names |-> NewInstance]
    /\ sat = None
    /\ last = [op |-> "init", arg |-> <<>>, ret |-> None]
    /\ call = NoCall
    /\ out = NoOut

\* set_solver without its test of the cache slot: every call constructs.
set_solver_rebuild(solver_name) ==
    /\ created[solver_name] < 3
    /\ created' = [created EXCEPT ![solver_name] = @ + 1]
    /\ solver_cache' = [solver_cache EXCEPT ![solver_name] =
                            Ref(solver_name, created[solver_name] + 1)]
    /\ inst' = [inst EXCEPT ![solver_name] = NewInstance]
    /\ solver' = solver_cache'[solver_name]
    /\ last' = [op |-> "set_solver", arg |-> <<solver_name>>, ret |-> None,
                prev |-> solver]
    /\ UNCHANGED <<strict, sat, call, out>>

\* set_solver(solver_name)
set_solver(solver_name) ==
    /\ created' = IF solver_cache[solver_name] = NoSolver
                  THEN [created EXCEPT ![solver_name] = @ + 1]
                  ELSE created
    /\ solver_cache' = IF solver_cache[solver_name] = NoSolver
                       THEN [solver_cache EXCEPT ![solver_name] =
                                Ref(solver_name, created[solver_name] + 1)]
                       ELSE solver_cache
    /\ inst' = IF solver_cache[solver_name] = NoSolver
               THEN [inst EXCEPT ![solver_name] = NewInstance]
               ELSE inst
    /\ solver' = solver_cache'[solver_name]
    /\ last' = [op |-> "set_solver", arg |-> <<solver_name>>, ret |-> None,
                prev |-> solver]
    /\ UNCHANGED <<strict, sat, call, out>>

\* declare_const(name, sort): the adapter makes a native variable, the facade
\* wraps it; nothing the model holds changes.
declare_const(name, sort) ==
    /\ Active
    /\ last' = [op |-> "declare_const", arg |-> <<name, sort>>,
                ret |-> OwnedTerm(sort, name, solver)]
    /\ UNCHANGED <<strict, solver_cache, solver, created, inst, sat, call, out>>

\* A Term exists once the instance it was declared under has been constructed
\* (a constructed instance has been the active one, and declare_const asks for
\* nothing else).
Declared(c) ==
    IsTerm(c) /\ "owner" \in DOMAIN c => created[c.owner.cls] >= c.owner.gen

\* The facade's check of one constraint of Assert:
\* sort != bool and sort != sorts.Bool() raises.
Rejected(c) == SortOrType(c) # "bool" /\ SortOrType(c) # "Bool"

\* How many more formulas the run may hand to Assert.
Room == MaxAsserts - (Len(inst["CVC4"].assertions)
                        + Len(inst["Boolector"].assertions))

\* c = getattr(constraint, 'solver_term', _solver.theory_const(Bool, constraint))
AsSolverTerm(c) == IF IsTerm(c) THEN c ELSE Const("Bool", c.v)

\* The loop of Assert over its constraints: a constraint is checked, turned
\* into a solver term and handed to _solver.Assert before the next one is
\* looked at, so the constraints before a rejected one stay asserted.
RECURSIVE AssertLoop(_, _, _)
AssertLoop(cls, i, cs) ==
    IF cs = <<>> THEN [inst |-> i, err |-> None]
    ELSE IF Rejected(Head(cs)) THEN [inst |-> i, err |-> "ValueError"]
    ELSE LET r == Solver_Assert(cls, i, <<AsSolverTerm(Head(cs))>>)
         IN IF r.err # None THEN r ELSE AssertLoop(cls, r.inst, Tail(cs))

\* Assert(constraints), constraints a non-empty sequence of formulas
SmtAssert(constraints) ==
    /\ Active
    /\ constraints # <<>>
    /\ \A j \in 1..Len(constraints) : Declared(constraints[j])
    /\ Len(constraints) <= Room
    /\ LET r == AssertLoop(solver.cls, inst[solver.cls], constraints)
       IN /\ inst' = [inst EXCEPT ![solver.cls] = r.inst]
          /\ last' = [op |-> "Assert", arg |-> constraints, ret |-> r.err,
                      passed |-> Len(r.inst.assertions)
                                   - Len(inst[solver.cls].assertions)]
    /\ UNCHANGED <<strict, solver_cache, solver, created, sat, call, out>>

\* check_sat(): sat = _solver.check_sat(); return sat
check_sat ==
    /\ Active
    /\ \E native \in NativeOutcomes(inst[solver.cls]) :
          LET r == Solver_check_sat(solver.cls, native)
          IN /\ inst' = [inst EXCEPT ![solver.cls].sat = r,
                                      ![solver.cls].native = native]
             /\ sat' = r
             /\ last' = [op |-> "check_sat", arg |-> <<native>>, ret |-> r]
    /\ UNCHANGED <<strict, solver_cache, solver, created, call, out>>

\* get_value(self, var): the facade's function takes two parameters and
\* raises NotImplementedError; called with the term alone, Python refuses the
\* call for the missing parameter.
get_value(nargs) ==
    /\ Active
    /\ last' = [op |-> "get_value", arg |-> <<nargs>>,
                ret |-> IF nargs = 2 THEN "NotImplementedError" ELSE "TypeError"]
    /\ UNCHANGED <<strict, solver_cache, solver, created, inst, sat, call, out>>

\* _solver.get_value(var), the adapter's method, called on the active instance
solver_get_value ==
    /\ Active
    /\ last' = [op |-> "solver.get_value", arg |-> <<>>,
                ret |-> Solver_get_value(inst[solver.cls])]
    /\ UNCHANGED <<strict, solver_cache, solver, created, inst, sat, call, out>>

\* reset(self): _solver.reset().  The function declares one parameter, which
\* it does not read: called with none, Python refuses the call.
reset(nargs) ==
    /\ Active
    /\ inst' = IF nargs = 1 THEN [inst EXCEPT ![solver.cls] = Solver_reset(@)]
               ELSE inst
    /\ last' = [op |-> "reset", arg |-> <<nargs>>,
                ret |-> IF nargs = 1 THEN None ELSE "TypeError"]
    /\ UNCHANGED <<strict, solver_cache, solver, created, sat, call, out>>

\* The logic and option names the facade is called with.
Logics == {"QF_BV", "QF_LIA"}
Options == {"produce-models"}

\* _BoolectorLogics
BoolectorLogics == {"QF_BV", "QF_ABV"}

\* solver.set_logic(*args): both adapters declare set_logic(self, logicstr).
\* BoolectorSolver refuses a logic outside _BoolectorLogics; CVC4Solver hands
\* the name to the native engine.
Solver_set_logic(cls, args) ==
    IF Len(args) # 1 THEN "TypeError"
    ELSE IF cls = "Boolector" /\ args[1] \notin BoolectorLogics THEN "ValueError"
    ELSE None

\* set_logic(logicstr): _solver.set_logic(logicstr)
set_logic(logicstr) ==
    /\ Active
    /\ last' = [op |-> "set_logic", arg |-> <<logicstr>>,
                calls |-> <<[to |-> "set_logic", args |-> <<logicstr>>]>>,
                ret |-> Solver_set_logic(solver.cls, <<logicstr>>)]
    /\ UNCHANGED <<strict, solver_cache, solver, created, inst, sat, call, out>>

\* set_option(optionstr, value): _solver.set_logic(optionstr, value)
set_option(optionstr, value) ==
    /\ Active
    /\ last' = [op |-> "set_option", arg |-> <<optionstr, value>>,
                calls |-> <<[to |-> "set_logic", args |-> <<optionstr, value>>]>>,
                ret |-> Solver_set_logic(solver.cls, <<optionstr, value>>)]
    /\ UNCHANGED <<strict, solver_cache, solver, created, inst, sat, call, out>>

Next ==
    \/ \E n \in Names : set_solver(n)
    \/ \E d \in {<<"x", "Bool">>, <<"a", "BV">>} : declare_const(d[1], d[2])
    \/ \E cs \in SeqsUpTo(Formulas, Room) : SmtAssert(cs)
    \/ check_sat
    \/ \E nargs \in {1, 2} : get_value(nargs)
    \/ solver_get_value
    \/ \E nargs \in {0, 1} : reset(nargs)

Spec == Init /\ [][Next]_vars

\* The facade across a switch of the active backend: set_solver, the
\* declaration and the assertion of constants that carry the instance they
\* were declared under, and the settings handed to the active backend.
SwitchNext ==
    \/ \E n \in Names : set_solver(n)
    \/ \E d \in {<<"x", "Bool">>, <<"a", "BV">>} : declare_const(d[1], d[2])
    \/ \E cs \in SeqsUpTo(OwnedFormulas, Room) : SmtAssert(cs)
    \/ \E l \in Logics : set_logic(l)
    \/ \E o \in Options, v \in {"true"} : set_option(o, v)

SwitchSpec == Init /\ [][SwitchNext]_vars

(***************************************************************************)
(* Operator application: values                                            *)
(***************************************************************************)
\* A host list given as one argument.
List(items) == [k |-> "List", items |-> items]

\* The argument values a call is tried on: a Term of sort Bool, a Term of a
\* bit-vector sort, and the bare host values True, 7 and 0.
ArgVals == {Term("Bool", "x"), Term("BV", "a"), Lit("True"), Lit("7"), Lit("0")}

\* The tuples *args a call site is tried on: its arguments given positionally,
\* or given as a single list.
PyArgs ==
    SeqsUpTo(ArgVals, MaxArgs) \cup {<<List(a)>> : a \in SeqsUpTo(ArgVals, MaxArgs)}

\* "if args and isinstance(args[0], list): args = args[0]"
Expand(args) ==
    IF args # <<>> /\ args[1].k = "List" THEN args[1].items ELSE args

\* math.inf and sys.maxsize, the upper arity of And, Or and Plus: above every
\* argument count
inf == 1000000

\* The arity class attribute of the function classes of functions.py.
Arity(name) ==
    CASE name = "Equals"  -> [min |-> 2, max |-> 2]
      [] name = "And"     -> [min |-> 2, max |-> inf]
      [] name = "Or"      -> [min |-> 2, max |-> inf]
      [] name = "Extract" -> [min |-> 1, max |-> 1]

\* functions.fdata(num_indices, min_arity, max_arity)
fdata(n, lo, hi) == [num_indices |-> n, min_arity |-> lo, max_arity |-> hi]

\* functions.func_symbols, the fdata of a function symbol: the arity above, and
\* as many indices as the function has parameters (extract's ub and lb).
FData(name) ==
    fdata(IF name = "Extract" THEN 2 ELSE 0, Arity(name).min, Arity(name).max)

\* The function symbols a call is tried on.
FunSyms == {"Equals", "And", "Or", "Extract"}

\* A function with its index parameters: an operator of smt.py (func, args), a
\* function object of functions.py (class, params).
Op(name, params) == [name |-> name, params |-> params]

\* The functions handed to the apply entry points: a symbol without indices,
\* or Extract with its two indices bound.
Funs ==
    {Op(n, <<>>) : n \in FunSyms \ {"Extract"}}
        \cup {Op("Extract", <<Lit("7"), Lit("0")>>)}

\* The outcome of a call: what it returned or raised (ret; val holds a returned
\* argument, or the arguments a returned operator carries), the apply_fun
\* dispatches it made and the native operator applications it reached, in order.
Res(r, v, d, n) == [ret |-> r, val |-> v, disp |-> d, native |-> n]

Raise(e) == Res(e, <<>>, <<>>, <<>>)

Errors ==
    {"ValueError", "AttributeError", "IndexError", "AssertionError", "TypeError"}

Lits(args) == {j \in 1..Len(args) : ~IsTerm(args[j])}
Terms(args) == {j \in 1..Len(args) : IsTerm(args[j])}

CHOOSEMax(S) == CHOOSE j \in S : \A m \in S : m <= j

(***************************************************************************)
(* Operator application: the adapters                                      *)
(***************************************************************************)
\* One native operator application, with the arguments it is given.
Native(fun, nargs) == [op |-> fun.name, params |-> fun.params, args |-> nargs]

\* BoolectorSolver.And / BoolectorSolver.Or: a reduce over the native binary
\* operator, recorded as one application to all the operands; a single
\* operand is returned as it is, and args[0] of no operand raises.
BoolectorSolver_And(fun, nargs) ==
    IF nargs = <<>> THEN Raise("IndexError")
    ELSE IF Len(nargs) = 1 THEN Res("Term", <<>>, <<>>, <<>>)
    ELSE Res("Term", <<>>, <<>>, <<Native(fun, nargs)>>)

\* BoolectorSolver.apply_fun(fun, *args).  The arity test reads
\* "strict and len < min or len > max" and runs before the list is unpacked;
\* an argument without solver_term is handed to the native operator as it is.
BoolectorSolver_apply_fun(st, fun, args) ==
    IF (st /\ Len(args) < Arity(fun.name).min) \/ Len(args) > Arity(fun.name).max
    THEN Raise("ValueError")
    ELSE IF args = <<>> THEN Raise("IndexError")
    ELSE IF fun.name \in {"And", "Or"} THEN BoolectorSolver_And(fun, Expand(args))
    ELSE Res("Term", <<>>, <<>>, <<Native(fun, Expand(args))>>)

\* CVC4Solver.apply_fun(op, *args).  No arity test (it is commented out).  In
\* strict mode every argument must carry solver_term; otherwise the last
\* CVC4Term among the arguments gives the sort of every bare value.
CVC4Solver_apply_fun(st, fun, args) ==
    IF args = <<>> THEN Raise("IndexError")
    ELSE LET a == Expand(args) IN
         IF st THEN
             IF Lits(a) # {} THEN Raise("AttributeError")
             ELSE Res("Term", <<>>, <<>>, <<Native(fun, a)>>)
         ELSE IF Terms(a) = {} THEN Raise("IndexError")
         ELSE LET t == a[CHOOSEMax(Terms(a))]
                  sargs == [j \in 1..Len(a) |->
                               IF IsTerm(a[j]) THEN a[j]
                               ELSE Const(t.sort, a[j].v)]
              IN Res("Term", <<>>, <<>>, <<Native(fun, sargs)>>)

\* solver.apply_fun(fun, *args), by the class of the instance; the dispatch is
\* recorded in front of what the adapter did.
Solver_apply_fun(cls, st, fun, args) ==
    LET r == IF cls = "Boolector" THEN BoolectorSolver_apply_fun(st, fun, args)
             ELSE CVC4Solver_apply_fun(st, fun, args)
    IN [r EXCEPT !.disp =
            <<[to |-> "solver.apply_fun", fun |-> fun, args |-> args]>> \o @]

(***************************************************************************)
(* Operator application: functions.py                                      *)
(***************************************************************************)
\* FunctionBase.__call__(self, *args); s_terms[0].solver is the instance the
\* first Term among the arguments belongs to, of class cls.
FunctionBase___call__(st, cls, fun, pyargs) ==
    IF st THEN Raise("ValueError")
    ELSE LET args == Expand(pyargs) IN
         IF args # <<>> THEN
             IF Terms(args) = {} THEN Raise("ValueError")
             ELSE Solver_apply_fun(cls, st, fun, args)
         ELSE Raise("ValueError")

\* And.__call__ and Or.__call__ (the same text but for the value of no
\* argument): args[0].solver of a bare first argument raises.
Nary___call__(st, cls, fun, unit, pyargs) ==
    IF st THEN Raise("ValueError")
    ELSE LET args == Expand(pyargs) IN
         IF Len(args) > 1 THEN
             IF ~IsTerm(args[1]) THEN Raise("AttributeError")
             ELSE Solver_apply_fun(cls, st, fun, args)
         ELSE IF Len(args) = 1 THEN Res("arg", <<args[1]>>, <<>>, <<>>)
         ELSE Res(unit, <<>>, <<>>, <<>>)

And___call__(st, cls, pyargs) == Nary___call__(st, cls, Op("And", <<>>), "True", pyargs)

Or___call__(st, cls, pyargs) == Nary___call__(st, cls, Op("Or", <<>>), "False", pyargs)

(***************************************************************************)
(* Operator application: smt.py                                            *)
(***************************************************************************)
\* apply_fun(fun, *args) of the facade.  A sequence given as first argument is
\* unpacked; ls_term is the last argument (its solver_term, or the argument
\* itself when it has none) and gives the sort of every bare value.  The
\* adapter is handed the function with its indices and the solver terms.
smt_apply_fun(st, cls, fun, pyargs) ==
    LET here == <<[to |-> "smt.apply_fun", fun |-> fun, args |-> pyargs]>>
        args == Expand(pyargs)
    IN IF pyargs = <<>> \/ args = <<>> THEN Res("IndexError", <<>>, here, <<>>)
       ELSE LET ls_term == args[Len(args)] IN
            IF Lits(args) # {} /\ (st \/ ~IsTerm(ls_term))
            THEN Res("AttributeError", <<>>, here, <<>>)
            ELSE LET solver_args ==
                         [j \in 1..Len(args) |->
                             IF IsTerm(args[j]) THEN args[j]
                             ELSE Const(ls_term.sort, args[j].v)]
                     r == Solver_apply_fun(cls, st, fun, solver_args)
                 IN [r EXCEPT !.disp = here \o @]

\* __gen_operator(fun, fdata, *args).  fun is a function of the module
\* (isop FALSE) or an operator already (isop TRUE, with the arguments it
\* carries); a returned operator carries exactly args.
gen_operator(st, cls, fun, fd, pyargs) ==
    LET args == Expand(pyargs) IN
    IF fun.isop THEN
        IF Len(fun.params) # fd.num_indices THEN Raise("AssertionError")
        ELSE IF Len(args) > fd.min_arity THEN
            IF st /\ Len(args) > fd.max_arity THEN Raise("ValueError")
            ELSE smt_apply_fun(st, cls, Op(fun.name, fun.params), args)
        ELSE Res("operator", args, <<>>, <<>>)
    ELSE IF Len(args) = fd.num_indices \/ Len(args) = 0
        THEN Res("operator", args, <<>>, <<>>)
    ELSE IF Len(args) >= fd.num_indices + fd.min_arity THEN
        IF st /\ Len(args) > fd.max_arity THEN Raise("ValueError")
        ELSE smt_apply_fun(st, cls,
                           Op(fun.name, SubSeq(args, 1, fd.num_indices)),
                           SubSeq(args, fd.num_indices + 1, Len(args)))
    ELSE Raise("ValueError")

\* A function of the module as __gen_function makes it, or an operator.
Fn(name) == [isop |-> FALSE, name |-> name, params |-> <<>>]
Opr(name, params) == [isop |-> TRUE, name |-> name, params |-> params]

\* The function func(*args) that __gen_function generates for a symbol.
smt_func(st, cls, name, pyargs) == gen_operator(st, cls, Fn(name), FData(name), pyargs)

\* _And(*args) and _Or(*args) (the same text but for the value of the empty
\* list).
smt_Nary(st, cls, name, unit, pyargs) ==
    IF st THEN gen_operator(st, cls, Fn(name), fdata(0, 2, inf), pyargs)
    ELSE IF pyargs # <<>> /\ pyargs[1].k = "List" /\ pyargs[1].items = <<>>
        THEN Res(unit, <<>>, <<>>, <<>>)
    ELSE LET args == Expand(pyargs) IN
         IF Len(args) = 1 THEN Res("arg", <<args[1]>>, <<>>, <<>>)
         ELSE gen_operator(st, cls, Fn(name), fdata(0, 1, inf), args)

smt_And(st, cls, pyargs) == smt_Nary(st, cls, "And", "True", pyargs)

smt_Or(st, cls, pyargs) == smt_Nary(st, cls, "Or", "False", pyargs)

(***************************************************************************)
(* Operator application: the call sites                                    *)
(***************************************************************************)
\* A call changes nothing of the life cycle.
Pure == UNCHANGED <<strict, solver_cache, solver, created, inst, sat, last>>

Called(site, fun, pyargs, r) ==
    /\ Active
    /\ call' = [site |-> site, fun |-> fun, pyargs |-> pyargs]
    /\ out' = r
    /\ Pure

\* smt.apply_fun(fun, *pyargs)
call_smt_apply_fun(fun, pyargs) ==
    Called("smt.apply_fun", fun, pyargs,
           smt_apply_fun(strict, solver.cls, fun, pyargs))

\* _solver.apply_fun(fun, *pyargs), the adapter's method called directly
call_solver_apply_fun(fun, pyargs) ==
    Called("solver.apply_fun", fun, pyargs,
           Solver_apply_fun(solver.cls, strict, fun, pyargs))

\* fun(*pyargs), fun an instance of a function class of functions.py that
\* keeps FunctionBase.__call__
call_FunctionBase(fun, pyargs) ==
    Called("FunctionBase.__call__", fun, pyargs,
           FunctionBase___call__(strict, solver.cls, fun, pyargs))

\* functions.And()(*pyargs)
call_And(pyargs) ==
    Called("And.__call__", Op("And", <<>>), pyargs,
           And___call__(strict, solver.cls, pyargs))

\* functions.Or()(*pyargs)
call_Or(pyargs) ==
    Called("Or.__call__", Op("Or", <<>>), pyargs,
           Or___call__(strict, solver.cls, pyargs))

\* the generated func(*pyargs) of a symbol of smt.py
call_smt_func(name, pyargs) ==
    Called("smt.func", Op(name, <<>>), pyargs,
           smt_func(strict, solver.cls, name, pyargs))

\* __gen_operator(fun, fdata, *pyargs) with fun an operator that carries its
\* indices
call_gen_operator(fun, pyargs) ==
    Called("smt.__gen_operator", fun, pyargs,
           gen_operator(strict, solver.cls, Opr(fun.name, fun.params),
                        FData(fun.name), pyargs))

\* smt._And(*pyargs)
call_smt_And(pyargs) ==
    Called("smt._And", Op("And", <<>>), pyargs,
           smt_And(strict, solver.cls, pyargs))

\* smt._Or(*pyargs)
call_smt_Or(pyargs) ==
    Called("smt._Or", Op("Or", <<>>), pyargs,
           smt_Or(strict, solver.cls, pyargs))

(***************************************************************************)
(* Output sorts: functions.py osort, smt.py fun2sort                       *)
(***************************************************************************)
\* The greatest index an extract is tried on (the least is -1).
MaxIndex == 3

\* sorts.Bool() and sorts.BitVec(width), as values
BoolSort == [s |-> "Bool", w |-> 0]
BitVecSort(width) == [s |-> "BitVec", w |-> width]

\* sorts.BitVec(width): the constructor refuses a width below 1.
BitVec(width) ==
    IF width >= 1 THEN Res("sort", <<BitVecSort(width)>>, <<>>, <<>>)
    ELSE Raise("ValueError")

\* The arguments an output sort is computed from: Terms of sort Bool,
\* BitVec(8) and BitVec(4), and a bare host value.
SortArgVals ==
    {Term(BoolSort, "c"), Term(BitVecSort(8), "a"), Term(BitVecSort(4), "b"),
     Lit("7")}

\* smtutils.sorts_list(args): the sort of each argument, None for an argument
\* that has none.
NoSort == [s |-> "None", w |-> 0]

sorts_list(args) ==
    [j \in 1..Len(args) |-> IF IsTerm(args[j]) THEN args[j].sort ELSE NoSort]

\* bool(x) of an entry of sorts_list: a sort object is true, None is false.
Truthy(args, j) == sorts_list(args)[j] # NoSort

\* reduce(lambda x, y: x and y, ...) over the entries lo..hi of sorts_list:
\* "x and y" is y when x is true, so the result is true iff every entry is.
ReduceAnd(args, lo, hi) == \A j \in lo..hi : Truthy(args, j)

\* Ite.osort(*args).  The message of the first raise reads
\* self.__class__name, an attribute that does not exist; the message of the
\* second reads args[1].sort and args[2].sort.
Ite_osort(args) ==
    IF Len(args) # 3 THEN Raise("AttributeError")
    ELSE IF ~ReduceAnd(args, 2, 3) THEN
        IF IsTerm(args[2]) /\ IsTerm(args[3]) THEN Raise("ValueError")
        ELSE Raise("AttributeError")
    ELSE Res("sort", <<sorts_list(args)[2]>>, <<>>, <<>>)

\* _bvbinops.osort(*args); reduce of no entry raises TypeError.
bvbinops_osort(args) ==
    IF args = <<>> THEN Raise("TypeError")
    ELSE IF ~ReduceAnd(args, 1, Len(args)) THEN Raise("ValueError")
    ELSE Res("sort", <<sorts_list(args)[1]>>, <<>>, <<>>)

\* The subclasses of _bvbinops.
BvBinops ==
    {"bvand", "bvor", "bvadd", "bvmul", "bvudiv", "bvurem", "bvshl", "bvlshr"}

\* extract(ub, lb).width and extract.osort(*args)
extract_width(ub, lb) == ub - lb + 1

extract_osort(ub, lb, args) == BitVec(extract_width(ub, lb))

\* fun2sort['Extract']: lambda ub, lb, arg: sorts.BitVec(ub - lb + 1)
fun2sort_Extract(ub, lb, arg) == BitVec(ub - lb + 1)

\* Ite().osort(*args)
call_Ite_osort(args) ==
    Called("Ite.osort", Op("Ite", <<>>), args, Ite_osort(args))

\* bvand().osort(*args), and so for each binary bit-vector function
call_bvbinops_osort(name, args) ==
    Called("_bvbinops.osort", Op(name, <<>>), args, bvbinops_osort(args))

\* extract(ub, lb).osort(arg)
call_extract_osort(ub, lb, arg) ==
    Called("extract.osort", Op("extract", <<ub, lb>>), <<arg>>,
           extract_osort(ub, lb, <<arg>>))

\* fun2sort['Extract'](ub, lb, arg)
call_fun2sort_Extract(ub, lb, arg) ==
    Called("fun2sort.Extract", Op("Extract", <<ub, lb>>), <<arg>>,
           fun2sort_Extract(ub, lb, arg))

\* The function classes that keep FunctionBase.__call__, and the symbols that
\* get a generated function.
Plain == {f \in Funs : f.name \notin {"And", "Or"}}

\* The state after one set_solver call, in either mode.
ApplyInit ==
    /\ strict \in BOOLEAN
    /\ \E n \in Modelled :
          /\ solver_cache = [m \in Names |-> IF m = n THEN Ref(n, 1) ELSE NoSolver]
          /\ solver = Ref(n, 1)
          /\ created = [m \in Names |-> IF m = n THEN 1 ELSE 0]
    /\ inst = [n \in Names |-> NewInstance]
    /\ sat = None
    /\ last = [op |-> "init", arg |-> <<>>, ret |-> None]
    /\ call = NoCall
    /\ out = NoOut

\* One call is made from each initial state: its outcome depends on nothing
\* an earlier call did.
ApplyNext ==
    \/ call = NoCall /\ \E f \in Funs, a \in PyArgs : call_smt_apply_fun(f, a)
    \/ call = NoCall /\ \E f \in Funs, a \in PyArgs : call_solver_apply_fun(f, a)
    \/ call = NoCall /\ \E f \in Plain, a \in PyArgs : call_FunctionBase(f, a)
    \/ call = NoCall /\ \E a \in PyArgs : call_And(a)
    \/ call = NoCall /\ \E a \in PyArgs : call_Or(a)
    \/ call = NoCall /\ \E f \in Plain, a \in PyArgs : call_smt_func(f.name, a)
    \/ call = NoCall /\ \E f \in Plain, a \in PyArgs : call_gen_operator(f, a)
    \/ call = NoCall /\ \E a \in PyArgs : call_smt_And(a)
    \/ call = NoCall /\ \E a \in PyArgs : call_smt_Or(a)
    \/ call = NoCall /\ \E a \in SeqsUpTo(SortArgVals, MaxArgs) : call_Ite_osort(a)
    \/ call = NoCall /\ \E f \in BvBinops, a \in SeqsUpTo(SortArgVals, MaxArgs) :
                           call_bvbinops_osort(f, a)
    \/ call = NoCall /\ \E ub, lb \in -1..MaxIndex, a \in SortArgVals :
                           call_extract_osort(ub, lb, a)
    \/ call = NoCall /\ \E ub, lb \in -1..MaxIndex, a \in SortArgVals :
                           call_fun2sort_Extract(ub, lb, a)

ApplySpec == ApplyInit /\ [][ApplyNext]_vars

(***************************************************************************)
(* Claims on the life cycle                                                *)
(***************************************************************************)
Cached(n) == solver_cache[n] # NoSolver

\* C1: each backend name is constructed at most once.  A constructor runs only
\* in a step that finds the name's cache slot empty; after set_solver(n) the
\* active backend is the instance cached under n; a cached instance stays the
\* cached instance of its name; and a step that switches the active backend,
\* or that runs while another backend is active, changes nothing of a cached
\* instance (its assertion list included), so that switching from A to B and
\* back finds A's identity and assertions as they were.
C1_ConstructedOnce ==
    /\ [](\A n \in Names : created[n] <= 1)
    /\ [](last.op = "set_solver" =>
              solver # NoSolver /\ solver = solver_cache[last.arg[1]])
    /\ [][\A n \in Names :
             /\ created'[n] # created[n] => ~Cached(n)
             /\ Cached(n) => solver_cache'[n] = solver_cache[n]
             /\ Cached(n) /\ (solver' # solver \/ solver_cache[n] # solver)
                  => inst'[n] = inst[n]]_vars

\* C1, witness: CVC4 holds assertions, was left for Boolector, and is active
\* again.
C1_Witness ==
    /\ last.op = "set_solver"
    /\ last.prev.cls = "Boolector"
    /\ solver.cls = "CVC4"
    /\ Len(inst["CVC4"].assertions) = 1
    /\ Len(inst["Boolector"].assertions) = 1

\* C2: get_value(term) answers a value only if the active backend's last
\* check_sat answered sat; it fails with the not-solved error when no check_sat
\* ran on that backend, and with the unsat-query error when its last check_sat
\* determined unsat.  (get_value changes no state, so the instance read here is
\* the one the call saw.)
C2_GetValueContract ==
    last.op = "get_value" =>
        /\ last.ret = "value" => inst[solver.cls].sat = "True"
        /\ inst[solver.cls].sat = None =>
               last.ret = "RuntimeError: Solver has not been run"
        /\ inst[solver.cls].native = "UNSAT" =>
               last.ret = "RuntimeError: Problem is unsat"

\* C3: check_sat reports sat, unsat or unknown: a native outcome that is
\* neither sat nor unsat is not reported as the answer given for unsat, and the
\* adapter's get_value after an unknown outcome is not answered with the
\* unsat-query error.
C3_UnknownReported ==
    /\ last.op = "check_sat" /\ last.arg[1] = "UNKNOWN" =>
           last.ret # Solver_check_sat(solver.cls, "UNSAT")
    /\ last.op = "solver.get_value" /\ inst[solver.cls].native = "UNKNOWN" =>
           last.ret # "RuntimeError: Problem is unsat"

\* What the claim lets Assert accept: a Term of sort Bool or, in permissive
\* mode only, a bare host boolean.
C4_Acceptable(f) ==
    \/ IsTerm(f) /\ f.sort = "Bool"
    \/ ~strict /\ ~IsTerm(f) /\ PyType(f) = "bool"

\* C4: Assert accepts a formula iff it is a Term of sort Bool or, in permissive
\* mode only, a bare host boolean; any other formula fails with the sort error
\* and is not passed to the backend's assert primitive.
C4_AssertValidates ==
    last.op = "Assert" /\ Len(last.arg) = 1 =>
        IF C4_Acceptable(last.arg[1])
        THEN last.ret = None /\ last.passed = 1
        ELSE last.ret = "ValueError" /\ last.passed = 0

(***************************************************************************)
(* Claims on operator application (specification ApplySpec)              *)
(***************************************************************************)
\* The arguments of the recorded call, whichever way they were given.
Given == Expand(call.pyargs)

\* The recorded call's site, called again with other arguments.
Again(pyargs) ==
    CASE call.site = "smt.apply_fun" ->
             smt_apply_fun(strict, solver.cls, call.fun, pyargs)
      [] call.site = "solver.apply_fun" ->
             Solver_apply_fun(solver.cls, strict, call.fun, pyargs)
      [] call.site = "FunctionBase.__call__" ->
             FunctionBase___call__(strict, solver.cls, call.fun, pyargs)
      [] call.site = "And.__call__" -> And___call__(strict, solver.cls, pyargs)
      [] call.site = "Or.__call__" -> Or___call__(strict, solver.cls, pyargs)
      [] call.site = "smt.func" ->
             smt_func(strict, solver.cls, call.fun.name, pyargs)
      [] call.site = "smt.__gen_operator" ->
             gen_operator(strict, solver.cls, Opr(call.fun.name, call.fun.params),
                          FData(call.fun.name), pyargs)
      [] call.site = "smt._And" -> smt_And(strict, solver.cls, pyargs)
      [] call.site = "smt._Or" -> smt_Or(strict, solver.cls, pyargs)

InArity(name, n) == Arity(name).min <= n /\ n <= Arity(name).max

\* C5: in strict mode, apply_fun of the facade on Terms whose number is
\* outside the operator's [min, max] fails with the arity error before any
\* native operator is applied, and succeeds when the number is within (for
\* Equals: 1 or 3 arguments fail, 2 succeed).
C5_StrictArity ==
    strict /\ call.site = "smt.apply_fun" /\ Given # <<>> /\ Lits(Given) = {} =>
        IF InArity(call.fun.name, Len(Given))
        THEN out.ret = "Term"
        ELSE out.ret = "ValueError" /\ out.native = <<>>

\* C6: in permissive mode, an apply of an operator to arguments among which
\* are a Term and bare values applies the native operator to the Terms and,
\* in the place of each bare value (first, middle or last), to a theory
\* constant of that value whose sort is the sort of a Term among the
\* arguments; with no Term among them the call fails and no native operator
\* is applied.  (Argument counts within the operator's arity.)
C6_BareValuesBecomeConstants ==
    /\ ~strict
    /\ call.site \in {"smt.apply_fun", "solver.apply_fun"}
    /\ Lits(Given) # {}
    /\ InArity(call.fun.name, Len(Given))
    => IF Terms(Given) = {}
       THEN out.ret \in Errors /\ out.native = <<>>
       ELSE /\ out.ret = "Term"
            /\ Len(out.native) = 1
            /\ Len(out.native[1].args) = Len(Given)
            /\ \A j \in 1..Len(Given) :
                  LET na == out.native[1].args[j] IN
                  IF IsTerm(Given[j]) THEN na = Given[j]
                  ELSE /\ na.k = "Const"
                       /\ na.v = Given[j].v
                       /\ \E t \in Terms(Given) : na.sort = Given[t].sort

\* C7: at every call site, a call given a single (non-empty) list of
\* arguments ends as the call given those arguments positionally does: the
\* same return or error, the same native operator applications.
C7_ListAsPositional ==
    /\ call.site # None
    /\ call.pyargs # <<>>
    /\ call.pyargs[1].k = "List"
    /\ call.pyargs[1].items # <<>>
    =>
        LET pos == Again(call.pyargs[1].items) IN
        /\ out.ret = pos.ret
        /\ out.val = pos.val
        /\ out.native = pos.native

\* C8: for a function symbol with n > 0 indices, a call with exactly n
\* arguments returns the operator carrying them and applies nothing; a call
\* with n index values followed by operand Terms (at least min_arity, at most
\* max_arity of them) applies the operator indexed by the first n to the
\* operands that follow, in strict mode as in permissive mode.
C8_IndexedCall ==
    call.site = "smt.func" /\ FData(call.fun.name).num_indices > 0 =>
        LET fd == FData(call.fun.name)
            n == fd.num_indices
            idx == SubSeq(Given, 1, n)
            opnds == SubSeq(Given, n + 1, Len(Given))
        IN /\ Len(Given) = n =>
                  out.ret = "operator" /\ out.val = Given
                      /\ out.disp = <<>> /\ out.native = <<>>
           /\ ( /\ Len(Given) >= n + fd.min_arity
                /\ Len(opnds) <= fd.max_arity
                /\ Terms(idx) = {}
                /\ Lits(opnds) = {} )
                  => /\ out.ret = "Term"
                     /\ Len(out.native) = 1
                     /\ out.native[1].op = call.fun.name
                     /\ out.native[1].params = idx
                     /\ out.native[1].args = opnds

NarySites == {"smt._And", "smt._Or", "And.__call__", "Or.__call__"}

\* C9: in permissive mode And of no argument returns True and Or of no
\* argument returns False, written And() or And([]), with no dispatch and no
\* native operator applied.
C9_NoArgumentIsUnit ==
    ~strict /\ call.site \in NarySites /\ Given = <<>> =>
        /\ out.ret = (IF call.fun.name = "And" THEN "True" ELSE "False")
        /\ out.disp = <<>>
        /\ out.native = <<>>

\* C10: in permissive mode And or Or of exactly one argument returns that
\* argument, with no dispatch and no native operator applied; of two or more
\* arguments it makes exactly one apply_fun dispatch, which carries all the
\* arguments in the order given.
C10_OneArgumentOrOneDispatch ==
    ~strict /\ call.site \in NarySites /\ Given # <<>> =>
        IF Len(Given) = 1
        THEN out.ret = "arg" /\ out.val = Given
                 /\ out.disp = <<>> /\ out.native = <<>>
        ELSE /\ out.disp # <<>>
             /\ Expand(out.disp[1].args) = Given
             /\ out.disp[1].fun.name = call.fun.name
             /\ Cardinality({j \in 1..Len(out.disp) :
                                out.disp[j].to = out.disp[1].to}) = 1

(***************************************************************************)
(* Claims on output sorts (specification ApplySpec)                        *)
(***************************************************************************)
\* C11: the output sort of Ite(cond, a, b), a and b Terms, is an
\* inconsistent-sort error when the sorts of a and b differ and their shared
\* sort when they are equal; the output sort of a binary bit-vector function
\* of two Terms is an inconsistent-sort error when their sorts differ and the
\* common sort otherwise.
C11_SortConsistency ==
    /\ ( /\ call.site = "Ite.osort"
         /\ Len(Given) = 3
         /\ IsTerm(Given[2]) /\ IsTerm(Given[3]) )
       => IF Given[2].sort # Given[3].sort
          THEN out.ret \in Errors
          ELSE out.ret = "sort" /\ out.val = <<Given[2].sort>>
    /\ ( /\ call.site = "_bvbinops.osort"
         /\ Len(Given) = 2
         /\ IsTerm(Given[1]) /\ IsTerm(Given[2]) )
       => IF Given[1].sort # Given[2].sort
          THEN out.ret \in Errors
          ELSE out.ret = "sort" /\ out.val = <<Given[1].sort>>

\* C12: the output sort of Extract(upper, lower) is BitVec(upper - lower + 1)
\* when 0 <= lower <= upper and an invalid-index error when upper < lower or
\* lower < 0; no output sort of Extract is a bit-vector sort of width below 1.
C12_ExtractWidth ==
    call.site \in {"extract.osort", "fun2sort.Extract"} =>
        LET upper == call.fun.params[1]
            lower == call.fun.params[2]
        IN /\ IF 0 <= lower /\ lower <= upper
              THEN out.ret = "sort" /\ out.val = <<BitVecSort(upper - lower + 1)>>
              ELSE out.ret \in Errors
           /\ out.ret = "sort" => out.val[1].w >= 1

(***************************************************************************)
(* Claims on the modes and on indexed operators (specification ApplySpec)  *)
(***************************************************************************)
ApplySites == {"smt.apply_fun", "solver.apply_fun"}

\* C13: in strict mode an apply_fun one of whose arguments is not a Term
\* fails, on either backend, and applies no native operator: no bare value is
\* made a theory constant or handed to the native operator.
C13_StrictRejectsBareValues ==
    strict /\ call.site \in ApplySites /\ Lits(Given) # {} =>
        out.ret \in Errors /\ out.native = <<>>

\* C14: in permissive mode no apply of an operator to Terms is refused, by
\* the facade or by an adapter, for a number of arguments outside the
\* operator's [min, max].
C14_ArityErrorsStrictOnly ==
    /\ ~strict
    /\ call.site \in ApplySites
    /\ Given # <<>> /\ Lits(Given) = {}
    /\ ~InArity(call.fun.name, Len(Given))
    => out.ret \notin Errors

\* C19: given an operator that carries its index parameters and takes k
\* operands, the dispatch returns, for fewer than k operands, an operator
\* carrying exactly the index parameters bound before and applies nothing;
\* for k operands or more it goes on to apply the indexed operator to them.
C19_IndexedOperatorDispatch ==
    call.site = "smt.__gen_operator" /\ Lits(Given) = {} =>
        LET k == FData(call.fun.name).min_arity IN
        IF Len(Given) < k
        THEN /\ out.ret = "operator"
             /\ out.val = call.fun.params
             /\ out.disp = <<>> /\ out.native = <<>>
        ELSE /\ out.disp # <<>>
             /\ out.disp[1].to = "smt.apply_fun"
             /\ out.disp[1].fun = call.fun
             /\ Expand(out.disp[1].args) = Given

(***************************************************************************)
(* Claims on reset, settings and switching                                 *)
(***************************************************************************)
\* C15: no assert primitive of a backend is handed a Term declared under
\* another instance: every Term in an instance's assertion list was declared
\* under that instance, and an Assert of a Term declared under an instance
\* other than the active one fails and hands nothing to the active backend.
C15_NoForeignHandle ==
    /\ \A n \in Modelled : \A j \in 1..Len(inst[n].assertions) :
           inst[n].assertions[j].k = "Term" =>
               inst[n].assertions[j].owner = solver_cache[n]
    /\ ( /\ last.op = "Assert"
         /\ \E j \in 1..Len(last.arg) :
               IsTerm(last.arg[j]) /\ last.arg[j].owner # solver )
       => last.ret # None /\ last.passed = 0

\* C16: a reset leaves the cache slots and the active-backend reference as
\* they were and changes nothing of the other cached instances; after a
\* reset that was carried out the active instance has no assertion.
C16_ResetFrame ==
    /\ [](last.op = "reset" /\ last.ret = None =>
              inst[solver.cls].assertions = <<>>)
    /\ [][last'.op = "reset" =>
              /\ solver_cache' = solver_cache
              /\ solver' = solver
              /\ solver_cache'[solver.cls] = solver
              /\ \A n \in Names \ {solver.cls} : inst'[n] = inst[n]]_vars

\* C16, witness: CVC4 has been reset after a check of a non-empty assertion
\* list answered unsat (its answer is still held), while Boolector holds an
\* assertion.
C16_Witness ==
    /\ last.op = "reset" /\ last.ret = None
    /\ solver.cls = "CVC4"
    /\ inst["CVC4"].sat = "False"
    /\ inst["CVC4"].assertions = <<>>
    /\ Len(inst["Boolector"].assertions) = 1

\* C17: set_option(name, value) calls the active backend's set_option with
\* that name and value and not its set_logic; set_logic(name) calls the
\* backend's set_logic only.
C17_SettingsRouting ==
    /\ last.op = "set_option" =>
           last.calls = <<[to |-> "set_option", args |-> last.arg]>>
    /\ last.op = "set_logic" =>
           last.calls = <<[to |-> "set_logic", args |-> last.arg]>>

\* C18: an Assert of a sequence of formulas one of which fails the sort
\* validation has asserted none of them on the backend.
C18_AssertAllOrNothing ==
    last.op = "Assert" /\ last.ret # None => last.passed = 0

\* C20: after a reset of a backend, and until check_sat is run on it again,
\* the backend's get_value fails with the not-solved error.  (native is None
\* from the construction or the last reset of the instance to its next
\* check_sat.)
C20_ResetForgetsSat ==
    last.op = "solver.get_value" /\ inst[solver.cls].native = None =>
        last.ret = "RuntimeError: Solver has not been run"

====
